---- MODULE Spec2Model ----
(***************************************************************************)
(* Model of backend/app.py: a Flask application whose handlers proxy one   *)
(* upstream API each.  A request is handled in two steps: Receive (routing *)
(* and the handler's code up to and including the issue of requests.get)   *)
(* and Complete (requests.get returns or raises, and the handler runs to   *)
(* its response).  Finish hands the worker to the next request.            *)
(*                                                                         *)
(* Numbers: an amount is an integer count of hundredths, a rate an integer *)
(* count of thousandths, so amount * rate counts 1/100000.  JSON values    *)
(* whose type the code inspects are tagged records [t, v].                 *)
(***************************************************************************)
EXTENDS Integers, Sequences, FiniteSets, TLC

VARIABLES env, pc, req, handler, outbound, upstream, resp, responses,
          raised, escaped, served, lastStatus

vars == << env, pc, req, handler, outbound, upstream, resp, responses,
           raised, escaped, served, lastStatus >>

\* ------------------------------------------------------------------ bounds
\* Longest article list the news upstream answers with.
MaxArticles == 12
\* Requests served one after the other by the worker.
MaxRequests == 2

\* ------------------------------------------------------- program constants
\* data[:10]
NewsLimit == 10
\* round(converted_amount, 2)
RoundDigits == 2

\* ---------------------------------------------------------- Python values
None == [t |-> "null", v |-> 0]
JNum(n) == [t |-> "num", v |-> n]
JStr(s) == [t |-> "str", v |-> s]

\* Python truthiness of a JSON scalar: None, 0 and "" are falsy.
Truthy_notNone(x) == x.t # "null"
Truthy(x) == ~(x.t = "null" \/ (x.t = "num" /\ x.v = 0) \/ (x.t = "str" /\ x.v = ""))

\* dict.get(key): the value, or None when the key is absent.
DictGet(d, k) == IF k \in DOMAIN d THEN d[k] ELSE None

\* request.args.get(name, default); an absent parameter is Absent.
Absent == [given |-> FALSE, s |-> ""]
Given(s) == [given |-> TRUE, s |-> s]
ArgsGet(args, name, default) == IF args[name].given THEN args[name].s ELSE default

\* os.getenv(name, default) on the process environment.
Getenv(e, default) == IF e.set THEN e.val ELSE default

\* ------------------------------------------------------------- exceptions
NoExc == [type |-> "none", msg |-> ""]
Exc(type, msg) == [type |-> type, msg |-> msg]
\* str(KeyError(k)) is repr(k).
KeyError(k) == Exc("KeyError", "'" \o k \o "'")
Ok(v) == [exc |-> NoExc, val |-> v]
Fail(e) == [exc |-> e, val |-> <<>>]

\* -------------------------------------------------------- float and round
Digits == {"0", "1", "2", "3", "4", "5", "6", "7", "8", "9"}
DigitVal(c) == CASE c = "0" -> 0 [] c = "1" -> 1 [] c = "2" -> 2 [] c = "3" -> 3
                 [] c = "4" -> 4 [] c = "5" -> 5 [] c = "6" -> 6 [] c = "7" -> 7
                 [] c = "8" -> 8 [] c = "9" -> 9

RECURSIVE Pow10(_)
Pow10(n) == IF n = 0 THEN 1 ELSE 10 * Pow10(n - 1)

RECURSIVE DigitsVal(_)
DigitsVal(s) == IF Len(s) = 0 THEN 0
                ELSE 10 * DigitsVal(SubSeq(s, 1, Len(s) - 1)) + DigitVal(s[Len(s)])

AllDigits(s) == \A i \in 1..Len(s) : s[i] \in Digits

\* float(s) for a sequence of characters s: [sign] digits [. digits], with at
\* least one digit and at most RoundDigits fraction digits; the value counts
\* hundredths.  Anything else raises ValueError.
ParseFloat(s) ==
  LET neg == Len(s) > 0 /\ s[1] = "-"
      body == IF Len(s) > 0 /\ s[1] \in {"-", "+"} THEN SubSeq(s, 2, Len(s)) ELSE s
      dots == {i \in 1..Len(body) : body[i] = "."}
      dot == IF dots = {} THEN Len(body) + 1 ELSE CHOOSE i \in dots : TRUE
      ip == SubSeq(body, 1, dot - 1)
      fp == SubSeq(body, dot + 1, Len(body))
      wellFormed == /\ Cardinality(dots) <= 1
                    /\ AllDigits(ip) /\ AllDigits(fp)
                    /\ Len(ip) + Len(fp) > 0
                    /\ Len(fp) <= RoundDigits
      mag == DigitsVal(ip) * Pow10(RoundDigits)
             + DigitsVal(fp) * Pow10(RoundDigits - Len(fp))
  IN IF wellFormed
     THEN Ok(IF neg THEN 0 - mag ELSE mag)
     ELSE Fail(Exc("ValueError", "could not convert string to float"))

\* float(1), the default of the amount parameter.
FloatOfOne == Pow10(RoundDigits)

\* round(x, 2) of x = p / 100000: the nearest hundredth, a tie going to the
\* even one.
Round2_truncate(p) ==
  LET a == IF p < 0 THEN 0 - p ELSE p
      q == a \div 1000
  IN IF p < 0 THEN 0 - q ELSE q
Round2(p) ==
  LET a == IF p < 0 THEN 0 - p ELSE p
      q == a \div 1000
      r == a % 1000
      m == IF r > 500 \/ (r = 500 /\ q % 2 = 1) THEN q + 1 ELSE q
  IN IF p < 0 THEN 0 - m ELSE m

\* ------------------------------------------------------------- responses
\* jsonify(obj), status
Json(obj, status) == [status |-> status, body |-> obj]
ErrorJson(msg, status) == Json([error |-> msg], status)
NoResp == [status |-> 0, body |-> [none |-> TRUE]]
\* What the framework answers when no route matches, and when an exception
\* leaves a view function: an HTML page, not the handler's JSON.
NotFoundPage == [status |-> 404, body |-> [html |-> "Not Found"]]
ServerErrorPage == [status |-> 500, body |-> [html |-> "Internal Server Error"]]

IsError(r, status, msg) ==
  r.status = status /\ DOMAIN r.body = {"error"} /\ r.body.error = msg
IsErrorObject(r) == DOMAIN r.body = {"error"}

\* ------------------------------------------------- outcome of a handler
\* The handler returned r.
Done(r) == [resp |-> r, raised |-> NoExc, escaped |-> FALSE]
\* except Exception as e: return jsonify({'error': str(e)}), 500
Caught_reraise(e) == [resp |-> ServerErrorPage, raised |-> e, escaped |-> TRUE]
Caught(e) == [resp |-> ErrorJson(e.msg, 500), raised |-> e, escaped |-> FALSE]
\* An exception raised outside every try block leaves the view function.
Escapes(e) == [resp |-> ServerErrorPage, raised |-> e, escaped |-> TRUE]
\* The end of a try block whose body evaluated to `tried`.
Except(tried) == IF tried.exc = NoExc THEN Done(tried.val) ELSE Caught(tried.exc)

\* The handler's code up to requests.get: it answers, or issues the call.
Respond(result) == [call |-> FALSE, url |-> <<>>, result |-> result]
Call(url) == [call |-> TRUE, url |-> url, result |-> Done(NoResp)]

\* --------------------------------------------------- the upstream's reply
TextBody == [kind |-> "text", val |-> <<>>]
Object(o) == [kind |-> "object", val |-> o]
Array(a) == [kind |-> "array", val |-> a]
Reply(status, body) == [fault |-> NoExc, status |-> status, body |-> body]
FaultReply(e) == [fault |-> e, status |-> 0, body |-> TextBody]
NoReply == FaultReply(NoExc)

\* response.json(): the parsed body, or JSONDecodeError on a body that is no JSON.
ResponseJson(reply) ==
  IF reply.body.kind = "text"
  THEN Fail(Exc("JSONDecodeError", "Expecting value: line 1 column 1 (char 0)"))
  ELSE Ok(reply.body)

\* data[k] on parsed JSON `data`: the first of `keys` that a dict lacks, "" when
\* it has them all.
RECURSIVE FirstMissing(_, _)
FirstMissing(o, keys) ==
  IF Len(keys) = 0 THEN ""
  ELSE IF keys[1] \notin DOMAIN o THEN keys[1]
  ELSE FirstMissing(o, Tail(keys))

NotSubscriptable == Exc("TypeError", "list indices must be integers or slices, not str")

\* ----------------------------------------------------------------- health
health_needsKey ==
  IF Getenv(env, "") = "" THEN ErrorJson("API key not configured", 500)
  ELSE Json([status |-> "healthy", message |-> "Dashboard API is running"], 200)
health == Json([status |-> "healthy", message |-> "Dashboard API is running"], 200)
health_root == Json([status |-> "healthy", message |-> "Dashboard API is running"], 200)

\* ---------------------------------------------------------------- weather
get_weather_before_noCheck(args, e) ==
  Call(<< "api.openweathermap.org", ArgsGet(args, "city", "London"), Getenv(e, "") >>)
get_weather_before(args, e) ==
  LET city == ArgsGet(args, "city", "London")
      api_key == Getenv(e, "")
  IN IF api_key = ""
     THEN Respond(Done(ErrorJson("API key not configured", 500)))
     ELSE Call(<< "api.openweathermap.org", city, api_key >>)

\* The dict display of the 200 branch, its items evaluated in order.
weather_fields(data) ==
  IF data.kind # "object" THEN Fail(NotSubscriptable)
  ELSE LET o == data.val IN
    IF "name" \notin DOMAIN o THEN Fail(KeyError("name"))
    ELSE IF "main" \notin DOMAIN o THEN Fail(KeyError("main"))
    ELSE IF "temp" \notin DOMAIN o.main THEN Fail(KeyError("temp"))
    ELSE IF "weather" \notin DOMAIN o THEN Fail(KeyError("weather"))
    ELSE IF Len(o.weather) = 0 THEN Fail(Exc("IndexError", "list index out of range"))
    ELSE IF "description" \notin DOMAIN o.weather[1] THEN Fail(KeyError("description"))
    ELSE IF "humidity" \notin DOMAIN o.main THEN Fail(KeyError("humidity"))
    ELSE IF "wind" \notin DOMAIN o THEN Fail(KeyError("wind"))
    ELSE IF "speed" \notin DOMAIN o.wind THEN Fail(KeyError("speed"))
    ELSE Ok(Json([city |-> o.name,
                  temperature |-> o.main.temp,
                  description |-> o.weather[1].description,
                  humidity |-> o.main.humidity,
                  wind_speed |-> o.wind.speed], 200))

weather_non200_leak(reply) ==
  IF reply.body.kind = "object" /\ "message" \in DOMAIN reply.body.val
  THEN ErrorJson(reply.body.val.message, reply.status)
  ELSE ErrorJson("City not found", 404)
weather_non200(reply) == ErrorJson("City not found", 404)

get_weather_after(reply) ==
  Except(IF reply.fault # NoExc THEN Fail(reply.fault)
         ELSE LET data == ResponseJson(reply) IN
           IF data.exc # NoExc THEN data
           ELSE IF reply.status = 200 THEN weather_fields(data.val)
           ELSE Ok(weather_non200(reply)))

\* --------------------------------------------------------------- currency
\* Lines 51-53, outside the try block: float() of a malformed amount raises
\* ValueError there.
currency_amount(args) ==
  IF args["amount"].given THEN ParseFloat(args["amount"].s) ELSE Ok(FloatOfOne)

convert_currency_before(args) ==
  LET from_currency == ArgsGet(args, "from", "USD")
      amount == currency_amount(args)
  IN IF amount.exc # NoExc THEN Respond(Escapes(amount.exc))
     ELSE Call(<< "api.exchangerate-api.com", from_currency >>)

\* The 200 branch: rate = data['rates'].get(to_currency), then if rate: ...
currency_fields(data, from_currency, to_currency, amount) ==
  IF data.kind # "object" THEN Fail(NotSubscriptable)
  ELSE IF "rates" \notin DOMAIN data.val THEN Fail(KeyError("rates"))
  ELSE LET rate == DictGet(data.val.rates, to_currency) IN
    IF Truthy(rate)
    THEN LET converted_amount == amount * rate.v IN
         Ok(Json([from |-> from_currency,
                  to |-> to_currency,
                  amount |-> amount,
                  converted |-> Round2(converted_amount),
                  rate |-> rate.v], 200))
    ELSE Ok(ErrorJson("Invalid currency code", 400))

convert_currency_after(args, reply) ==
  LET from_currency == ArgsGet(args, "from", "USD")
      to_currency == ArgsGet(args, "to", "EUR")
      amount == currency_amount(args).val
  IN Except(IF reply.fault # NoExc THEN Fail(reply.fault)
            ELSE LET data == ResponseJson(reply) IN
              IF data.exc # NoExc THEN data
              ELSE IF reply.status = 200
                   THEN currency_fields(data.val, from_currency, to_currency, amount)
              ELSE Ok(ErrorJson("Unable to fetch exchange rates", 500)))

\* ----------------------------------------------------------------- github
get_github_stats_before(username) == Call(<< "api.github.com", "users", username >>)

GithubKeys == << "login", "name", "bio", "public_repos", "followers", "following",
                 "avatar_url", "html_url" >>

github_fields(data) ==
  IF data.kind # "object" THEN Fail(NotSubscriptable)
  ELSE LET o == data.val
           missing == FirstMissing(o, GithubKeys)
       IN IF missing # "" THEN Fail(KeyError(missing))
          ELSE Ok(Json([username |-> o.login,
                        name |-> o.name,
                        bio |-> o.bio,
                        public_repos |-> o.public_repos,
                        followers |-> o.followers,
                        following |-> o.following,
                        avatar_url |-> o.avatar_url,
                        profile_url |-> o.html_url], 200))

get_github_stats_after(reply) ==
  Except(IF reply.fault # NoExc THEN Fail(reply.fault)
         ELSE LET data == ResponseJson(reply) IN
           IF data.exc # NoExc THEN data
           ELSE IF reply.status = 200 THEN github_fields(data.val)
           ELSE Ok(ErrorJson("User not found", 404)))

\* -------------------------------------------------------------- ip-lookup
ip_lookup_before(args) ==
  LET ip == ArgsGet(args, "ip", "")
  IN Call(IF ip # "" THEN << "ipapi.co", ip, "json" >> ELSE << "ipapi.co", "json" >>)

ip_fields(data) ==
  IF data.kind # "object"
  THEN Fail(Exc("AttributeError", "'list' object has no attribute 'get'"))
  ELSE LET o == data.val IN
       Ok(Json([ip |-> DictGet(o, "ip"),
                city |-> DictGet(o, "city"),
                region |-> DictGet(o, "region"),
                country |-> DictGet(o, "country_name"),
                timezone |-> DictGet(o, "timezone"),
                org |-> DictGet(o, "org")], 200))

ip_lookup_after(reply) ==
  Except(IF reply.fault # NoExc THEN Fail(reply.fault)
         ELSE LET data == ResponseJson(reply) IN
           IF data.exc # NoExc THEN data
           ELSE IF reply.status = 200 THEN ip_fields(data.val)
           ELSE Ok(ErrorJson("Unable to lookup IP", 500)))

\* ------------------------------------------------------------------- news
get_news_before == Call(<< "dev.to", "api", "articles" >>)

ArticleKeys == << "title", "description", "url", "published_at", "tag_list" >>

\* data[:10]
FirstTen_all(a) == a
FirstTen(a) == SubSeq(a, 1, IF Len(a) < NewsLimit THEN Len(a) ELSE NewsLimit)

\* The loop of the 200 branch over a list `data`: the first article that lacks a
\* key raises KeyError for its first missing key.
news_fields(data) ==
  LET first == FirstTen(data.val)
      bad == {i \in 1..Len(first) : FirstMissing(first[i], ArticleKeys) # ""}
  IN IF bad # {}
     THEN LET i == CHOOSE j \in bad : \A k \in bad : j <= k
          IN Fail(KeyError(FirstMissing(first[i], ArticleKeys)))
     ELSE Ok(Json([articles |->
                     [i \in 1..Len(first) |->
                        [title |-> first[i].title,
                         description |-> first[i].description,
                         url |-> first[i].url,
                         published_at |-> first[i].published_at,
                         tags |-> first[i].tag_list]]], 200))

get_news_after(reply) ==
  Except(IF reply.fault # NoExc THEN Fail(reply.fault)
         ELSE LET data == ResponseJson(reply) IN
           IF data.exc # NoExc THEN data
           ELSE IF reply.status = 200 THEN news_fields(data.val)
           ELSE Ok(ErrorJson("Unable to fetch news", 500)))

\* ---------------------------------------------------------------- routing
\* The @app.route table.  <username> matches one non-empty path segment.
Route_catchAll(path) ==
  IF path = << "api", "health" >> THEN "health"
  ELSE IF path = << "health" >> THEN "health_root"
  ELSE IF path = << "api", "weather" >> THEN "get_weather"
  ELSE IF path = << "api", "currency" >> THEN "convert_currency"
  ELSE IF Len(path) = 3 /\ path[1] = "api" /\ path[2] = "github" /\ path[3] # ""
       THEN "get_github_stats"
  ELSE IF path = << "api", "ip-lookup" >> THEN "ip_lookup"
  ELSE "get_news"
Route(path) ==
  IF path = << "api", "health" >> THEN "health"
  ELSE IF path = << "health" >> THEN "health_root"
  ELSE IF path = << "api", "weather" >> THEN "get_weather"
  ELSE IF path = << "api", "currency" >> THEN "convert_currency"
  ELSE IF Len(path) = 3 /\ path[1] = "api" /\ path[2] = "github" /\ path[3] # ""
       THEN "get_github_stats"
  ELSE IF path = << "api", "ip-lookup" >> THEN "ip_lookup"
  ELSE IF path = << "api", "news" >> THEN "get_news"
  ELSE "none"

ProxyHandlers == {"get_weather", "convert_currency", "get_github_stats",
                  "ip_lookup", "get_news"}

\* The view function h on request r, up to its outbound call.
Before(h, r, e) ==
  CASE h = "health" -> Respond(Done(health))
    [] h = "health_root" -> Respond(Done(health_root))
    [] h = "get_weather" -> get_weather_before(r.args, e)
    [] h = "convert_currency" -> convert_currency_before(r.args)
    [] h = "get_github_stats" -> get_github_stats_before(r.path[3])
    [] h = "ip_lookup" -> ip_lookup_before(r.args)
    [] h = "get_news" -> get_news_before
    [] OTHER -> Respond(Done(NotFoundPage))

\* The view function h from the return of requests.get to its response.
After(h, r, reply) ==
  CASE h = "get_weather" -> get_weather_after(reply)
    [] h = "convert_currency" -> convert_currency_after(r.args, reply)
    [] h = "get_github_stats" -> get_github_stats_after(reply)
    [] h = "ip_lookup" -> ip_lookup_after(reply)
    [] h = "get_news" -> get_news_after(reply)

\* ----------------------------------------------------------------- inputs
Without(f, k) == [x \in DOMAIN f \ {k} |-> f[x]]

AbsentAmount == [given |-> FALSE, s |-> <<>>]
NoArgs == [city |-> Absent, from |-> Absent, to |-> Absent,
           amount |-> AbsentAmount, ip |-> Absent]
NoReq == [path |-> <<>>, args |-> NoArgs]

Envs == {[set |-> FALSE, val |-> ""], [set |-> TRUE, val |-> ""],
         [set |-> TRUE, val |-> "k3y"]}

PlainPaths == { << "api", "health" >>, << "health" >>, << "api", "news" >>,
                << "api", "github", "octocat" >>, << "api", "github", "nobody" >>,
                \* no route matches these
                << >>, << "api" >>, << "api", "invalid-endpoint" >>,
                << "api", "github" >>, << "api", "github", "" >>,
                << "api", "github", "octocat", "repos" >>, << "health", "x" >>,
                << "api", "news", "top" >> }

AmountStrings == { << "1", "0" >>, << "1" >>, << "2", ".", "5" >>, << "0", ".", "5" >>,
                   << "-", "3" >>, << "0" >>,
                   \* float() rejects these
                   << "a", "b", "c" >>, << >>, << "1", ".", "2", ".", "3" >> }

Requests ==
  {[path |-> p, args |-> NoArgs] : p \in PlainPaths}
  \cup {[path |-> << "api", "weather" >>, args |-> [NoArgs EXCEPT !.city = c]] :
          c \in {Absent, Given("London"), Given("Paris"), Given("")}}
  \cup {[path |-> << "api", "currency" >>,
         args |-> [NoArgs EXCEPT !.from = f, !.to = t, !.amount = a]] :
          f \in {Absent, Given("USD"), Given("GBP")},
          t \in {Absent, Given("EUR"), Given("JPY"), Given("XXX")},
          a \in {AbsentAmount} \cup {Given(x) : x \in AmountStrings}}
  \cup {[path |-> << "api", "ip-lookup" >>, args |-> [NoArgs EXCEPT !.ip = i]] :
          i \in {Absent, Given(""), Given("8.8.8.8")}}

\* requests.get raises these.
Faults == {Exc("ConnectionError", "Failed to establish a new connection"),
           Exc("Timeout", "Read timed out")}
Statuses == {200, 404, 500}

WeatherFull == [name |-> "London", cod |-> 200,
                main |-> [temp |-> 12, humidity |-> 80, pressure |-> 1012],
                weather |-> << [description |-> "light rain", icon |-> "10d"] >>,
                wind |-> [speed |-> 5]]
WeatherBodies ==
  {Object(WeatherFull)}
  \cup {Object(Without(WeatherFull, k)) : k \in {"name", "main", "weather", "wind"}}
  \cup {Object([WeatherFull EXCEPT !.main = Without(WeatherFull.main, k)]) :
          k \in {"temp", "humidity"}}
  \cup {Object([WeatherFull EXCEPT !.wind = Without(WeatherFull.wind, "speed")]),
        Object([WeatherFull EXCEPT !.weather = << >>]),
        Object([WeatherFull EXCEPT !.weather = << [icon |-> "10d"] >>]),
        Object([cod |-> "404", message |-> "city not found"]),
        Array(<< >>), TextBody}

\* rates are counted in thousandths
RateValues == {JNum(0), JNum(850), JNum(125), JNum(375), JNum(1500), None}
CurrencyBodies ==
  {Object([base |-> "USD", rates |-> [USD |-> JNum(1000), EUR |-> x]]) : x \in RateValues}
  \cup {Object([base |-> "USD", rates |-> [USD |-> JNum(1000), JPY |-> JNum(1500)]]),
        Object([result |-> "error", message |-> "unsupported-code"]),
        Array(<< >>), TextBody}

GithubFull == [login |-> "octocat", name |-> "The Octocat", bio |-> "mascot",
               public_repos |-> 8, followers |-> 100, following |-> 9,
               avatar_url |-> "https://avatars/octocat",
               html_url |-> "https://github.com/octocat", id |-> 583231]
GithubBodies ==
  {Object(GithubFull)}
  \cup {Object(Without(GithubFull, GithubKeys[i])) : i \in 1..Len(GithubKeys)}
  \cup {Object([message |-> "Not Found"]), Array(<< >>), TextBody}

IpFull == [ip |-> JStr("8.8.8.8"), city |-> JStr("Mountain View"),
           region |-> JStr("California"), country_name |-> JStr("United States"),
           timezone |-> JStr("America/Los_Angeles"), org |-> JStr("GOOGLE"),
           asn |-> JStr("AS15169")]
IpBodies ==
  {Object(IpFull), Object(Without(IpFull, "org")), Object(Without(IpFull, "country_name")),
   Object([error |-> JStr("true"), reason |-> JStr("RateLimited")]),
   Array(<< >>), TextBody}

\* The k-th article of the feed; it carries fields the handler does not map.
Article(k) == [title |-> "t" \o ToString(k), description |-> "d" \o ToString(k),
               url |-> "https://dev.to/" \o ToString(k),
               published_at |-> "2024-01-" \o ToString(k),
               tag_list |-> << "webdev", "tag" \o ToString(k) >>,
               id |-> k, user |-> "author"]
\* Feeds of n articles in either order, and feeds with one article lacking a key.
NewsBodies ==
  {Array([i \in 1..n |-> Article(i)]) : n \in 0..MaxArticles}
  \cup {Array([i \in 1..n |-> Article(n + 1 - i)]) : n \in 2..MaxArticles}
  \cup {Array([i \in 1..n |-> IF i = d THEN Without(Article(i), ArticleKeys[j])
                                         ELSE Article(i)]) :
          n \in {1, MaxArticles - 1, MaxArticles},
          d \in {1, 2, NewsLimit, MaxArticles - 1}, j \in 1..Len(ArticleKeys)}
  \cup {TextBody}

Bodies(h) ==
  CASE h = "get_weather" -> WeatherBodies
    [] h = "convert_currency" -> CurrencyBodies
    [] h = "get_github_stats" -> GithubBodies
    [] h = "ip_lookup" -> IpBodies
    [] h = "get_news" -> NewsBodies

\* What requests.get can do for handler h.
Replies(h) ==
  IF h \notin ProxyHandlers THEN {}
  ELSE {FaultReply(e) : e \in Faults}
       \cup {Reply(st, b) : st \in Statuses, b \in Bodies(h)}

\* ---------------------------------------------------------------- actions
Init ==
  /\ env \in Envs
  /\ pc = "idle"
  /\ req = NoReq
  /\ handler = "none"
  /\ outbound = << >>
  /\ upstream = NoReply
  /\ resp = NoResp
  /\ responses = 0
  /\ raised = NoExc
  /\ escaped = FALSE
  /\ served = 0
  /\ lastStatus = 0

\* A request arrives: it is routed and its view function runs until it returns,
\* raises, or blocks in requests.get.
Receive(r) ==
  /\ pc = "idle"
  /\ served < MaxRequests
  /\ LET h == Route(r.path)
         first == Before(h, r, env)
     IN /\ req' = r
        /\ handler' = h
        /\ IF first.call
           THEN /\ outbound' = Append(outbound, first.url)
                /\ pc' = "waiting"
                /\ UNCHANGED << resp, responses, raised, escaped >>
           ELSE /\ resp' = first.result.resp
                /\ raised' = first.result.raised
                /\ escaped' = first.result.escaped
                /\ responses' = responses + 1
                /\ pc' = "done"
                /\ UNCHANGED outbound
  /\ UNCHANGED << env, upstream, served, lastStatus >>

\* requests.get returns or raises, and the view function runs to its end.
Complete_retry(reply) ==
  /\ pc = "waiting"
  /\ upstream' = reply
  /\ IF reply.fault # NoExc /\ Len(outbound) < 2
     THEN /\ outbound' = Append(outbound, outbound[1])
          /\ UNCHANGED << pc, resp, responses, raised, escaped >>
     ELSE LET result == After(handler, req, reply)
          IN /\ resp' = result.resp
             /\ raised' = result.raised
             /\ escaped' = result.escaped
             /\ responses' = responses + 1
             /\ pc' = "done"
             /\ UNCHANGED outbound
  /\ UNCHANGED << env, req, handler, served, lastStatus >>
Complete(reply) ==
  /\ pc = "waiting"
  /\ upstream' = reply
  /\ LET result == After(handler, req, reply)
     IN /\ resp' = result.resp
        /\ raised' = result.raised
        /\ escaped' = result.escaped
        /\ responses' = responses + 1
        /\ pc' = "done"
  /\ UNCHANGED << env, req, handler, outbound, served, lastStatus >>

\* The response is sent; the worker is free for the next request.  Nothing of
\* the request survives but the history variables served and lastStatus.
Finish ==
  /\ pc = "done"
  /\ pc' = "idle"
  /\ served' = served + 1
  /\ lastStatus' = resp.status
  /\ req' = NoReq
  /\ handler' = "none"
  /\ outbound' = << >>
  /\ upstream' = NoReply
  /\ resp' = NoResp
  /\ responses' = 0
  /\ raised' = NoExc
  /\ escaped' = FALSE
  /\ UNCHANGED env

\* The upstream's answer is any of those the handler can meet.
Completes == \E reply \in Replies(handler) : Complete(reply)

Next ==
  \/ \E r \in Requests : Receive(r)
  \/ Completes
  \/ Finish

Spec == Init /\ [][Next]_vars

\* ------------------------------------------------------------ properties
\* The request was answered by its handler after the upstream replied.
Answered == pc = "done" /\ Len(outbound) = 1 /\ upstream.fault = NoExc
ToCurrency == IF req.args.to.given THEN req.args.to.s ELSE "EUR"
FromCurrency == IF req.args.from.given THEN req.args.from.s ELSE "USD"
\* The amount strings that are numbers, in hundredths.
RequestedAmount ==
  LET s == req.args.amount.s IN
  IF ~req.args.amount.given THEN 100
  ELSE CASE s = << "1", "0" >> -> 1000
         [] s = << "1" >> -> 100
         [] s = << "2", ".", "5" >> -> 250
         [] s = << "0", ".", "5" >> -> 50
         [] s = << "-", "3" >> -> 0 - 300
         [] s = << "0" >> -> 0
HasRates == upstream.body.kind = "object" /\ "rates" \in DOMAIN upstream.body.val
Abs(n) == IF n < 0 THEN 0 - n ELSE n
FiveFields == {"title", "description", "url", "published_at", "tags"}
UpstreamFive == {"title", "description", "url", "published_at", "tag_list"}
Min(a, b) == IF a < b THEN a ELSE b

\* C1: in a proxy handler every exception raised while the request is handled
\* ends in HTTP 500 with the error object {error: <message>}, and none leaves
\* the handler.
C1_EveryExceptionIsAnErrorObject ==
  (pc = "done" /\ handler \in ProxyHandlers /\ raised # NoExc) =>
    (~escaped /\ IsError(resp, 500, raised.msg))

\* The fixed error of each proxy endpoint.
FixedStatus(h) == IF h \in {"get_weather", "get_github_stats"} THEN 404 ELSE 500
FixedMessage(h) ==
  CASE h = "get_weather" -> "City not found"
    [] h = "convert_currency" -> "Unable to fetch exchange rates"
    [] h = "get_github_stats" -> "User not found"
    [] h = "ip_lookup" -> "Unable to lookup IP"
    [] h = "get_news" -> "Unable to fetch news"

\* C2: whenever the upstream answers with a status other than 200 the
\* response is the endpoint's fixed error, whatever the upstream body is.
C2_Non200AnyBody ==
  (Answered /\ upstream.status # 200) =>
    IsError(resp, FixedStatus(handler), FixedMessage(handler))

\* C2 restricted to upstream bodies that parse as JSON: there the response to a
\* status other than 200 is the endpoint's fixed error.
C2_Non200ParsedBody ==
  (Answered /\ upstream.status # 200 /\ upstream.body.kind # "text") =>
    IsError(resp, FixedStatus(handler), FixedMessage(handler))

C2_Witness ==
  /\ Answered /\ handler = "get_github_stats" /\ upstream.status = 404
  /\ upstream.body = Object([message |-> "Not Found"])
  /\ IsError(resp, 404, "User not found")

\* C3: with OPENWEATHER_API_KEY unset or empty, /api/weather answers 500
\* {error: 'API key not configured'} for every city, and issues no outbound call.
C3_NoKeyNoCall ==
  (pc # "idle" /\ req.path = << "api", "weather" >> /\ (~env.set \/ env.val = "")) =>
    /\ pc = "done"
    /\ IsError(resp, 500, "API key not configured")
    /\ outbound = << >>
    /\ upstream = NoReply

C3_Witness ==
  /\ pc = "done" /\ req.path = << "api", "weather" >> /\ ~env.set
  /\ req.args.city = Given("Paris")
  /\ IsError(resp, 500, "API key not configured") /\ outbound = << >>

\* The conversion response for amount a (hundredths) at rate r (thousandths):
\* converted is the hundredth nearest to a * r, and the rest is echoed.
IsConversion(r) ==
  /\ resp.status = 200
  /\ DOMAIN resp.body = {"from", "to", "amount", "converted", "rate"}
  /\ 2 * Abs(resp.body.converted * 1000 - RequestedAmount * r) <= 1000
  /\ resp.body.rate = r
  /\ resp.body.amount = RequestedAmount
  /\ resp.body.from = FromCurrency
  /\ resp.body.to = ToCurrency

\* C4 as stated: when the upstream answers 200 and reports a rate for `to`, the
\* response is 200 with converted = round(amount * rate, 2), the rate reported,
\* the amount requested, and from/to echoed.
C4_ConvertsAnyReportedRate ==
  (/\ Answered /\ handler = "convert_currency" /\ upstream.status = 200 /\ HasRates
   /\ ToCurrency \in DOMAIN upstream.body.val.rates
   /\ upstream.body.val.rates[ToCurrency].t = "num") =>
    IsConversion(upstream.body.val.rates[ToCurrency].v)

\* C4 as amended: the same, when the rate reported for `to` is not zero.
C4_ConvertsNonZeroRate ==
  (/\ Answered /\ handler = "convert_currency" /\ upstream.status = 200 /\ HasRates
   /\ ToCurrency \in DOMAIN upstream.body.val.rates
   /\ upstream.body.val.rates[ToCurrency].t = "num"
   /\ upstream.body.val.rates[ToCurrency].v # 0) =>
    IsConversion(upstream.body.val.rates[ToCurrency].v)

C4_Witness ==
  /\ Answered /\ handler = "convert_currency" /\ upstream.status = 200 /\ HasRates
  /\ req.args.amount = Given(<< "2", ".", "5" >>)
  /\ DictGet(upstream.body.val.rates, ToCurrency) = JNum(375)
  /\ resp.status = 200 /\ resp.body.converted = 94 /\ resp.body.amount = 250

\* C5: on an upstream 200 whose body is a list of N articles, /api/news answers
\* with the first min(N, 10) of them in upstream order, each with exactly the
\* fields title, description, url, published_at, tags (tags from tag_list).
C5_FirstTenArticles ==
  (/\ Answered /\ handler = "get_news" /\ upstream.status = 200
   /\ upstream.body.kind = "array"
   /\ \A i \in 1..Min(Len(upstream.body.val), 10) :
        UpstreamFive \subseteq DOMAIN upstream.body.val[i]) =>
    LET data == upstream.body.val IN
    /\ resp.status = 200
    /\ DOMAIN resp.body = {"articles"}
    /\ Len(resp.body.articles) = Min(Len(data), 10)
    /\ \A i \in 1..Len(resp.body.articles) :
         /\ DOMAIN resp.body.articles[i] = FiveFields
         /\ resp.body.articles[i].title = data[i].title
         /\ resp.body.articles[i].description = data[i].description
         /\ resp.body.articles[i].url = data[i].url
         /\ resp.body.articles[i].published_at = data[i].published_at
         /\ resp.body.articles[i].tags = data[i].tag_list

C5_Witness ==
  /\ Answered /\ handler = "get_news" /\ upstream.status = 200
  /\ upstream.body.kind = "array" /\ Len(upstream.body.val) > 10
  /\ upstream.body.val[1].id > upstream.body.val[2].id
  /\ resp.status = 200 /\ Len(resp.body.articles) = 10

\* C6: /api/health and /health answer 200 with status 'healthy' in every
\* reachable state, whatever the key configuration and the earlier requests,
\* and make no outbound call.
C6_HealthAlwaysHealthy ==
  (pc # "idle" /\ req.path \in {<< "api", "health" >>, << "health" >>}) =>
    /\ pc = "done"
    /\ resp.status = 200
    /\ "status" \in DOMAIN resp.body /\ resp.body.status = "healthy"
    /\ outbound = << >>
    /\ upstream = NoReply

C6_Witness ==
  /\ pc = "done" /\ req.path = << "health" >> /\ ~env.set
  /\ served > 0 /\ lastStatus = 500
  /\ resp.status = 200 /\ resp.body.status = "healthy"

\* The paths of the registered routes.
Registered(path) ==
  \/ path \in {<< "api", "health" >>, << "health" >>, << "api", "weather" >>,
               << "api", "currency" >>, << "api", "ip-lookup" >>, << "api", "news" >>}
  \/ Len(path) = 3 /\ path[1] = "api" /\ path[2] = "github" /\ path[3] # ""

\* C7: a GET of a path that is no registered route answers 404; no handler runs
\* and no outbound call is made.
C7_UnknownPath404 ==
  (pc # "idle" /\ ~Registered(req.path)) =>
    /\ pc = "done"
    /\ resp.status = 404
    /\ handler = "none"
    /\ outbound = << >>
    /\ upstream = NoReply

C7_Witness ==
  /\ pc = "done" /\ req.path = << "api", "invalid-endpoint" >>
  /\ resp.status = 404 /\ handler = "none"

\* The 200 body lacks a key that the handler reads with data[key].
LacksDirectKey ==
  LET b == upstream.body IN
  CASE handler = "get_weather" ->
         /\ b.kind = "object"
         /\ \/ ~({"name", "main", "weather", "wind"} \subseteq DOMAIN b.val)
            \/ "main" \in DOMAIN b.val
                 /\ ~({"temp", "humidity"} \subseteq DOMAIN b.val.main)
            \/ "wind" \in DOMAIN b.val /\ "speed" \notin DOMAIN b.val.wind
            \/ "weather" \in DOMAIN b.val /\ Len(b.val.weather) > 0
                 /\ "description" \notin DOMAIN b.val.weather[1]
    [] handler = "get_github_stats" ->
         /\ b.kind = "object"
         /\ ~({"login", "name", "bio", "public_repos", "followers", "following",
               "avatar_url", "html_url"} \subseteq DOMAIN b.val)
    [] handler = "get_news" ->
         /\ b.kind = "array"
         /\ \E i \in 1..Min(Len(b.val), 10) : ~(UpstreamFive \subseteq DOMAIN b.val[i])
    [] handler = "convert_currency" ->
         b.kind = "object" /\ "rates" \notin DOMAIN b.val
    [] OTHER -> FALSE

\* C8 as stated: an upstream 200 whose body lacks a key read by direct access
\* surfaces as an unhandled fault, not as a typed {error: ...} response.
C8_MissingKeyUnhandled ==
  (Answered /\ upstream.status = 200 /\ LacksDirectKey) =>
    (escaped /\ ~IsErrorObject(resp))

\* C8 as amended: an upstream 200 whose body lacks a key read by direct access
\* raises KeyError, which the handler's except clause turns into HTTP 500 with
\* the error object {error: <message of the KeyError>}; nothing leaves the handler.
C8_MissingKeyIs500ErrorObject ==
  (Answered /\ upstream.status = 200 /\ LacksDirectKey) =>
    /\ ~escaped
    /\ raised.type = "KeyError"
    /\ IsError(resp, 500, raised.msg)

C8_Witness ==
  /\ Answered /\ upstream.status = 200 /\ handler = "get_weather"
  /\ upstream.body.kind = "object" /\ "main" \notin DOMAIN upstream.body.val
  /\ "name" \in DOMAIN upstream.body.val
  /\ IsError(resp, 500, "'main'") /\ ~escaped

\* C9: a request issues at most one outbound GET and ends with exactly one
\* response; once the call has returned or failed no further call is made,
\* whatever the status or fault.
C9_OneCallOneResponse ==
  /\ Len(outbound) <= 1
  /\ responses <= 1
  /\ (pc = "waiting" => Len(outbound) = 1 /\ responses = 0)
  /\ (pc = "done" => responses = 1)
  /\ (upstream # NoReply => pc = "done" /\ Len(outbound) = 1)

C9_Witness ==
  /\ pc = "done" /\ upstream.fault # NoExc
  /\ Len(outbound) = 1 /\ responses = 1 /\ resp.status = 500

\* C10: on an upstream 200 with a rates object, /api/currency answers 400
\* {error: 'Invalid currency code'} exactly when the rate for `to` is absent,
\* null or 0, and 200 with the conversion otherwise.
C10_FalsyRateIsInvalidCode ==
  (Answered /\ handler = "convert_currency" /\ upstream.status = 200 /\ HasRates) =>
    LET rates == upstream.body.val.rates
        falsy == \/ ToCurrency \notin DOMAIN rates
                 \/ rates[ToCurrency].t = "null"
                 \/ rates[ToCurrency] = JNum(0)
    IN IF falsy THEN IsError(resp, 400, "Invalid currency code")
       ELSE IsConversion(rates[ToCurrency].v)

C10_Witness ==
  /\ Answered /\ handler = "convert_currency" /\ upstream.status = 200 /\ HasRates
  /\ DictGet(upstream.body.val.rates, ToCurrency) = JNum(0)
  /\ RequestedAmount = 1000
  /\ IsError(resp, 400, "Invalid currency code")

====
